---- MODULE Spec2Model ----
(***************************************************************************)
(* Uptime monitor: the JSON-file observation store (db/database.js), the   *)
(* scheduler and HTTP handlers that drive it (index.js) and the throttled  *)
(* Telegram notifier (services/telegram.js).                               *)
(*                                                                         *)
(* Node runs the handlers on one thread: the code between two awaits is    *)
(* one atomic step.  A handler suspends on fs.readFile, fs.writeFile, the  *)
(* probe's network I/O and bot.sendMessage, and each of those completes in *)
(* a step of its own, so that other handlers interleave between them.      *)
(*                                                                         *)
(* Time is counted in units of half an hour (OneHour == 2).                *)
(***************************************************************************)
EXTENDS Integers, Sequences, FiniteSets, TLC

\* ------------------------------------------------------------------ bounds
MaxClock == 4
MaxCallClock == 5
MaxProbes == 2
MaxAdminOps == 1
MaxSiteId == 3
MaxLogs == 4

\* --------------------------------------------------------------- constants
OneHour == 2
\* 24 * 60 * 60 * 1000 ms and 7 * 24 * 60 * 60 * 1000 ms, in half hours
Day == 48
Week == 336

Null == -1
Undefined == -2

\* the process clock starts late enough that Date.now() - 0 > oneHour
Clock0 == OneHour + 1

\* ---------------------------------------------------------------- processes
Ticks == {"t1", "t2"}
Checks == {"m1"}
Admins == {"a1"}
Callers == {"n1", "n2"}
Readers == {"r1"}
Procs == Ticks \cup Checks \cup Admins \cup Callers \cup Readers

SiteIds == 1 .. MaxSiteId
Urls == {"u1", "u2", "u3"}
ChatIds == {"c1", "c2"}
NoChat == "none"

VARIABLES
    file,                        \* content of database.json
    clock,                       \* Date.now()
    bot,                         \* TRUE iff TELEGRAM_BOT_TOKEN was set
    lastNotificationTimestamps,  \* the notifier's cooldown map
    pc,                          \* position of every handler invocation
    loc,                         \* local variables of every handler invocation
    nProbes,                     \* probes resolved so far (bounds the run)
    nAdminOps,                   \* registry requests served so far (bounds the run)
    lastDelivered,               \* history: call time of the latest delivery per key
    delivered,                   \* history: has a delivery happened for the key
    maxLogId,                    \* history: the largest id addLog has assigned
    probed,                      \* history: the endpoints <<id, url>> probed so far
    failed,                      \* history: the <<step, site id>> that have thrown
    cooldownFor                  \* history: the url of the endpoint whose delivery
                                 \* set the key's cooldown entry

vars == <<file, clock, bot, lastNotificationTimestamps, pc, loc, nProbes,
          nAdminOps, lastDelivered, delivered, maxLogId, probed, failed, cooldownFor>>

\* ------------------------------------------------------------ data helpers
Range(s) == {s[i] : i \in DOMAIN s}

MaxOf(S) == CHOOSE x \in S : \A y \in S : y <= x

NoLog == [id |-> 0, site_id |-> 0, status |-> "none", response_time |-> Undefined,
          details |-> "none", checked_at |-> Undefined]

NoSite == [id |-> 0, url |-> "none", is_paused |-> FALSE]

NoResult == [status |-> "none", responseTime |-> Undefined, details |-> "none"]

EmptyDB == [sites |-> <<>>, logs |-> <<>>, users |-> <<>>]

NoStats == [h24 |-> "none", d7 |-> "none"]

NoMessage == [statusChange |-> "none", site |-> "none", responseTime |-> "none",
              details |-> "none", checkedAt |-> "none"]

\* ------------------------------------------------------------------ checker
\* url.parse(siteUrl).protocol of the addresses
Protocol(siteUrl) ==
    CASE siteUrl = "u1" -> "http:"
      [] siteUrl = "u2" -> "https:"
      [] siteUrl = "u3" -> "http:"
      [] siteUrl = "u4" -> "ftp:"
      [] OTHER -> "none"

\* const client = options.protocol === 'https:' ? https : http
client(protocol) == IF protocol = "https:" THEN "https" ELSE "http"

\* client.get(options, ...) throws ERR_INVALID_PROTOCOL unless the protocol is
\* the one of the client's agent; the throw rejects the promise whose executor
\* made the call
getThrows(siteUrl) ==
    LET protocol == Protocol(siteUrl)
    IN  protocol # (IF client(protocol) = "https" THEN "https:" ELSE "http:")

\* variant: the upper limit of the UP range is included
responseOutcomeInclusive(statusCode, responseTime) ==
    [status |-> IF statusCode >= 200 /\ statusCode <= 400 THEN "UP" ELSE "DOWN",
     responseTime |-> responseTime,
     details |-> "Status code: " \o ToString(statusCode)]

\* the value the response callback resolves with
responseOutcome(statusCode, responseTime) ==
    [status |-> IF statusCode >= 200 /\ statusCode < 400 THEN "UP" ELSE "DOWN",
     responseTime |-> responseTime,
     details |-> "Status code: " \o ToString(statusCode)]

\* variant: the timeout is reported like a transport error
timeoutOutcomeAsError ==
    [status |-> "DOWN", responseTime |-> Null, details |-> "socket hang up"]

\* the value the 'timeout' listener resolves with
timeoutOutcome ==
    [status |-> "DOWN", responseTime |-> Null,
     details |-> "Request timed out after 15 seconds."]

\* the value the 'error' listener resolves with
errorOutcome(message) ==
    [status |-> "DOWN", responseTime |-> Null, details |-> message]

\* the probe outcomes the scheduler is run with: a 200 response and a timeout
Outcomes == { responseOutcome(200, 1), timeoutOutcome }

\* ------------------------------------------------------------- db/database
readDB == file

\* variant: the write is acknowledged but the file keeps its content
writeDBLost(old, data) == old

\* the content of database.json when writeDB(data) has resolved
writeDB(old, data) == data

\* db.sites.find(site => site.id === id)
FindSite(db, id) ==
    IF \E i \in DOMAIN db.sites : db.sites[i].id = id
    THEN db.sites[CHOOSE i \in DOMAIN db.sites :
                    /\ db.sites[i].id = id
                    /\ \A j \in DOMAIN db.sites : db.sites[j].id = id => i <= j]
    ELSE NoSite

getSiteById(db, id) == FindSite(db, id)

getAllSites(db) == db.sites

\* the object addSite hands to writeDB
addSite(db, url) ==
    LET newSite == [id |-> IF Len(db.sites) > 0
                           THEN MaxOf({db.sites[i].id : i \in DOMAIN db.sites}) + 1
                           ELSE 1,
                    url |-> url,
                    is_paused |-> FALSE]
    IN  [db EXCEPT !.sites = Append(@, newSite)]

\* the object togglePauseSite hands to writeDB
togglePauseSite(db, id) ==
    [db EXCEPT !.sites = [i \in DOMAIN db.sites |->
        IF db.sites[i].id = id
        THEN [db.sites[i] EXCEPT !.is_paused = ~@]
        ELSE db.sites[i]]]

\* variant: the filter compares the observation's own id
deleteSiteLogsById(db, id) ==
    SelectSeq(db.logs, LAMBDA log : log.id # id)

\* db.logs.filter(log => log.site_id !== id)
deleteSiteLogs(db, id) ==
    SelectSeq(db.logs, LAMBDA log : log.site_id # id)

\* the object deleteSite hands to writeDB
deleteSite(db, id) ==
    [db EXCEPT !.sites = SelectSeq(@, LAMBDA site : site.id # id),
               !.logs = deleteSiteLogs(db, id)]

\* the object addLog hands to writeDB
addLog(db, site_id, result, now) ==
    LET newLog == [id |-> IF Len(db.logs) > 0
                          THEN MaxOf({db.logs[i].id : i \in DOMAIN db.logs}) + 1
                          ELSE 1,
                   site_id |-> site_id,
                   status |-> result.status,
                   response_time |-> result.responseTime,
                   details |-> result.details,
                   checked_at |-> now]
    IN  [db EXCEPT !.logs = Append(@, newLog)]

RECURSIVE LatestInLast(_, _, _)
RECURSIVE LatestIn(_, _, _)
\* variant: a later element of db.logs always replaces the entry
LatestInLast(logs, site_id, acc) ==
    IF logs = <<>> THEN acc
    ELSE LET log == Head(logs)
         IN  IF log.site_id = site_id
             THEN LatestInLast(Tail(logs), site_id, log)
             ELSE LatestInLast(Tail(logs), site_id, acc)

\* the loop of getLatestLogs, for one site id: acc is latestLogs[site_id]
LatestIn(logs, site_id, acc) ==
    IF logs = <<>> THEN acc
    ELSE LET log == Head(logs)
         IN  IF log.site_id = site_id
                /\ (acc = NoLog \/ log.checked_at > acc.checked_at)
             THEN LatestIn(Tail(logs), site_id, log)
             ELSE LatestIn(Tail(logs), site_id, acc)

getLatestLogs(db) == [s \in SiteIds |-> LatestIn(db.logs, s, NoLog)]

RECURSIVE InsertByDateUnstable(_, _)
RECURSIVE InsertByDate(_, _)
\* variant: an observation goes in front of the ones with the same timestamp
InsertByDateUnstable(sorted, log) ==
    IF sorted = <<>> THEN <<log>>
    ELSE IF Head(sorted).checked_at > log.checked_at
         THEN <<Head(sorted)>> \o InsertByDateUnstable(Tail(sorted), log)
         ELSE <<log>> \o sorted

\* the place of log in a sequence sorted with (a, b) => b.checked_at -
\* a.checked_at: behind every element that is not older (the sort is stable)
InsertByDate(sorted, log) ==
    IF sorted = <<>> THEN <<log>>
    ELSE IF Head(sorted).checked_at >= log.checked_at
         THEN <<Head(sorted)>> \o InsertByDate(Tail(sorted), log)
         ELSE <<log>> \o sorted

RECURSIVE SortByDate(_)
\* logs.sort((a, b) => new Date(b.checked_at) - new Date(a.checked_at))
SortByDate(logs) ==
    IF logs = <<>> THEN <<>>
    ELSE InsertByDate(SortByDate(SubSeq(logs, 1, Len(logs) - 1)), logs[Len(logs)])

getLogsBySiteId(db, site_id) ==
    SortByDate(SelectSeq(db.logs, LAMBDA log : log.site_id = site_id))

\* two digits of a number below 100
TwoDigits(n) == IF n < 10 THEN "0" \o ToString(n) ELSE ToString(n)

\* ((upLogs / length) * 100).toFixed(2): the nearest number with two decimals
toFixed2(upLogs, length) ==
    LET hundredths == (20000 * upLogs + length) \div (2 * length)
    IN  ToString(hundredths \div 100) \o "." \o TwoDigits(hundredths % 100)

\* variant: the window is open at its old end
calcUptimeOpen(logs, since) ==
    LET relevantLogs == SelectSeq(logs, LAMBDA log : log.checked_at > since)
        upLogs == Len(SelectSeq(relevantLogs, LAMBDA log : log.status = "UP"))
    IN  IF Len(relevantLogs) = 0
        THEN "N/A"
        ELSE toFixed2(upLogs, Len(relevantLogs)) \o "%"

calcUptime(logs, since) ==
    LET relevantLogs == SelectSeq(logs, LAMBDA log : log.checked_at >= since)
        upLogs == Len(SelectSeq(relevantLogs, LAMBDA log : log.status = "UP"))
    IN  IF Len(relevantLogs) = 0
        THEN "N/A"
        ELSE toFixed2(upLogs, Len(relevantLogs)) \o "%"

\* the object getUptimeStats returns for a read db at time now
getUptimeStats(db, site_id, now) ==
    LET siteLogs == SelectSeq(db.logs, LAMBDA log : log.site_id = site_id)
    IN  [h24 |-> calcUptime(siteLogs, now - Day),
         d7 |-> calcUptime(siteLogs, now - Week)]


\* ------------------------------------------------------- services/telegram
\* variant: the statuses are compared without asking whether previousLog exists
statusChangedNoGuard(previousLog, currentLog) ==
    previousLog.status # currentLog.status

\* const statusChanged = previousLog && previousLog.status !== currentLog.status
statusChanged(previousLog, currentLog) ==
    previousLog # NoLog /\ previousLog.status # currentLog.status

\* const key = `${chatId}-${site.id}`
Keys == ChatIds \X (0 .. MaxSiteId)

KeyOf(chatId, site) == <<chatId, site.id>>

\* variant: the boundary of the cooldown is on the wrong side
rateLimitedInclusive(now, lastNotification) == now - lastNotification <= OneHour

\* now - lastNotification < oneHour
rateLimited(now, lastNotification) == now - lastNotification < OneHour

\* variant: the timestamp is recorded whether or not the send succeeded
cooldownAlways(timestamps, key, now, ok) == [timestamps EXCEPT ![key] = now]

\* lastNotificationTimestamps.set(key, now) after a successful sendMessage; a
\* rejected sendMessage jumps to the catch block and skips it
cooldownAfter(timestamps, key, now, ok) ==
    IF ok THEN [timestamps EXCEPT ![key] = now] ELSE timestamps

\* new Date(checked_at).toLocaleString()
toLocaleString(checked_at) ==
    IF checked_at = Undefined THEN "Invalid Date" ELSE ToString(checked_at)

\* the lines of the message handed to bot.sendMessage
formatMessage(site, previousLog, currentLog) ==
    [statusChange |-> previousLog.status \o " -> " \o currentLog.status,
     site |-> site.url,
     responseTime |-> IF currentLog.response_time \notin {Undefined, Null, 0}
                      THEN ToString(currentLog.response_time) \o "ms"
                      ELSE "N/A",
     details |-> currentLog.details,
     checkedAt |-> toLocaleString(currentLog.checked_at)]

\* ------------------------------------------------------------------- index
\* variant: paused endpoints stay in the list
activeSitesAll(sites) == sites

\* sites.filter(site => !site.is_paused)
activeSitesOf(sites) == SelectSeq(sites, LAMBDA site : ~site.is_paused)

\* variant: === in place of !==
tickStatusChangedSame(previousLog, result) ==
    previousLog # NoLog /\ previousLog.status = result.status

\* if (previousLog && previousLog.status !== result.status)
tickStatusChanged(previousLog, result) ==
    previousLog # NoLog /\ previousLog.status # result.status

\* what sendNotification reads of the object the scheduler passes as
\* currentLog: the probe result, which has no response_time and no checked_at
ResultAsLog(result) ==
    [id |-> 0, site_id |-> 0, status |-> result.status,
     response_time |-> Undefined, details |-> result.details,
     checked_at |-> Undefined]

\* users the fan-out loop calls sendNotification for: if (user.telegram_chat_id)
ChatsOf(users) ==
    LET withChat == SelectSeq(users, LAMBDA user : user.telegram_chat_id # NoChat)
    IN  [k \in DOMAIN withChat |-> withChat[k].telegram_chat_id]

\* --------------------------------------------------------- local variables
Loc0 ==
    [activeSites |-> <<>>,
     latestLogs |-> [s \in SiteIds |-> NoLog],
     i |-> 0,
     id |-> 0,
     site |-> NoSite,
     result |-> NoResult,
     previousLog |-> NoLog,
     currentLog |-> NoLog,
     db |-> EmptyDB,
     read |-> EmptyDB,
     chats |-> <<>>,
     u |-> 0,
     chatId |-> NoChat,
     now |-> 0,
     ret |-> FALSE,
     reqDestroyed |-> FALSE,
     first |-> FALSE,
     socketIdle |-> FALSE,
     events |-> 0,
     message |-> NoMessage,
     logs |-> <<>>,
     stats |-> NoStats]

\* the handler returns
Return(l) == [pc |-> "idle", l |-> Loc0]

\* for (const site of activeSites): the next iteration, or the end of the tick
NextSite(l) ==
    IF l.i < Len(l.activeSites)
    THEN [pc |-> "checkWebsite",
          l |-> [Loc0 EXCEPT !.activeSites = l.activeSites,
                             !.latestLogs = l.latestLogs,
                             !.i = l.i + 1,
                             !.site = l.activeSites[l.i + 1]]]
    ELSE Return(l)

\* for (const user of dbData.users): the next call of sendNotification, or the
\* end of the fan-out
NextUser(l) ==
    IF l.u < Len(l.chats)
    THEN [pc |-> "sendNotification",
          l |-> [l EXCEPT !.u = l.u + 1, !.chatId = l.chats[l.u + 1],
                          !.now = 0, !.ret = FALSE, !.message = NoMessage]]
    ELSE NextSite(l)

\* variant: a destination that was not delivered to ends the fan-out
ReturnedAbort(p, l, v) ==
    IF p \in Ticks
    THEN IF v THEN NextUser([l EXCEPT !.ret = v]) ELSE NextSite(l)
    ELSE [pc |-> "idle", l |-> [Loc0 EXCEPT !.ret = v]]

\* sendNotification returns v to its caller
Returned(p, l, v) ==
    IF p \in Ticks
    THEN NextUser([l EXCEPT !.ret = v])
    ELSE [pc |-> "idle", l |-> [Loc0 EXCEPT !.ret = v]]

Go(p, next) ==
    /\ pc' = [pc EXCEPT ![p] = next.pc]
    /\ loc' = [loc EXCEPT ![p] = next.l]

\* variant: no try inside the loop, the error ends the tick
siteCatchAbort(l) == Return(l)

\* catch (error) inside the for loop: the error is logged, the loop goes on
siteCatch(l) == NextSite(l)

\* variant: the error is thrown on and checkAllSites rejects
sitesCatchRethrow(l) == [pc |-> "rejected", l |-> Loc0]

\* catch (error) around the body of checkAllSites: the error is logged and
\* checkAllSites resolves
sitesCatch(l) == Return(l)

\* variant: the error is swallowed and the loop body goes on to the fan-out
ThrownIgnored(p, l) == [pc |-> "readUsers", l |-> l]

\* an await inside the loop body rejects: the per-site catch of checkAllSites;
\* POST /check/:id has no catch and the handler ends there
Thrown(p, l) == IF p \in Ticks THEN siteCatch(l) ELSE Return(l)

\* -------------------------------------------------------------- scheduler
\* checkAllSites is called (cron, the startup timer or POST /check-all) and
\* its getAllSites read completes
TickGetAllSites(p) ==
    /\ p \in Ticks
    /\ pc[p] = "idle"
    /\ LET sites == getAllSites(readDB)
           activeSites == activeSitesOf(sites)
       IN  IF Len(activeSites) = 0
           THEN Go(p, Return(loc[p]))
           ELSE Go(p, [pc |-> "getLatestLogs",
                       l |-> [Loc0 EXCEPT !.activeSites = activeSites]])
    /\ UNCHANGED <<file, clock, bot, lastNotificationTimestamps, nProbes,
                   nAdminOps, lastDelivered, delivered, maxLogId, probed, failed, cooldownFor>>

\* the getLatestLogs read completes; the first probe is issued
TickGetLatestLogs(p) ==
    /\ pc[p] = "getLatestLogs"
    /\ Go(p, NextSite([loc[p] EXCEPT !.latestLogs = getLatestLogs(readDB)]))
    /\ UNCHANGED <<file, clock, bot, lastNotificationTimestamps, nProbes,
                   nAdminOps, lastDelivered, delivered, maxLogId, probed, failed, cooldownFor>>

\* resolve(value) settles the pending promise of checkWebsite; the caller's
\* await resumes and addLog is called
Resolve(p, value, destroyed) ==
    /\ pc[p] = "checkWebsite"
    /\ ~getThrows(loc[p].site.url)
    /\ nProbes < MaxProbes
    /\ nProbes' = nProbes + 1
    /\ Go(p, [pc |-> "addLog",
              l |-> [loc[p] EXCEPT
                       !.result = value,
                       !.events = 1,
                       !.reqDestroyed = destroyed,
                       !.first = <<loc[p].site.id, loc[p].site.url>> \notin probed,
                       !.previousLog = IF p \in Ticks
                                       THEN loc[p].latestLogs[loc[p].site.id]
                                       ELSE NoLog]])
    /\ probed' = probed \cup {<<loc[p].site.id, loc[p].site.url>>}
    /\ UNCHANGED <<file, clock, bot, lastNotificationTimestamps, nAdminOps,
                   lastDelivered, delivered, maxLogId, failed, cooldownFor>>

\* checkWebsite resolves with result: the response callback, or the 'timeout'
\* listener, which destroys the request first
ProbeResolve(p, result) ==
    /\ result \in Outcomes
    /\ Resolve(p, result, result = timeoutOutcome)

\* client.get's callback runs for a response with this status code, after
\* responseTime milliseconds
OnResponse(p, statusCode, responseTime) ==
    /\ statusCode # 0
    /\ Resolve(p, responseOutcome(statusCode, responseTime), FALSE)

\* req.on('timeout'): req.destroy(), then resolve
OnTimeout(p) ==
    /\ pc[p] = "checkWebsite"
    /\ Resolve(p, timeoutOutcome, TRUE)

\* req.on('error')
OnError(p, message) ==
    /\ pc[p] = "checkWebsite"
    /\ Resolve(p, errorOutcome(message), FALSE)

\* options.timeout is the idle timeout of the socket: it runs from the last
\* activity on the socket.  Some time passes without a byte from the server
SocketIdle(p) ==
    /\ pc[p] = "checkWebsite"
    /\ ~getThrows(loc[p].site.url)
    /\ ~loc[p].socketIdle
    /\ loc' = [loc EXCEPT ![p].socketIdle = TRUE]
    /\ UNCHANGED <<file, clock, bot, lastNotificationTimestamps, pc, nProbes,
                   nAdminOps, lastDelivered, delivered, maxLogId, probed, failed, cooldownFor>>

\* the server sends bytes that do not complete the response head: no
\* 'response' yet, and the idle timer of the socket starts again
OnSocketData(p) ==
    /\ pc[p] = "checkWebsite"
    /\ loc[p].socketIdle
    /\ loc' = [loc EXCEPT ![p].socketIdle = FALSE]
    /\ UNCHANGED <<file, clock, bot, lastNotificationTimestamps, pc, nProbes,
                   nAdminOps, lastDelivered, delivered, maxLogId, probed, failed, cooldownFor>>

\* the socket has been idle for options.timeout: 'timeout' is emitted
OnSocketTimeout(p) ==
    /\ loc[p].socketIdle
    /\ Resolve(p, timeoutOutcome, TRUE)

\* variant: a later resolve replaces the value of the promise
resolveAgain(result, value) == value

\* resolve(value) on a promise that is settled with result has no effect
resolveSettled(result, value) == result

\* a further event of the same request while the caller is already going
\* on: 'error' (socket hang up) after req.destroy() in the 'timeout' listener,
\* 'error' or 'timeout' while the body of a response is drained.  Its listener
\* calls resolve(value) once more
OnLateEvent(p, value) ==
    /\ pc[p] \in {"addLog", "addLog_writeDB"}
    /\ loc[p].events = 1
    /\ \/ /\ value = timeoutOutcome
          /\ loc[p].result.responseTime # Null
       \/ /\ value # timeoutOutcome
          /\ (loc[p].reqDestroyed \/ loc[p].result.responseTime # Null)
    /\ loc' = [loc EXCEPT ![p].result = resolveSettled(@, value),
                          ![p].events = 2]
    /\ UNCHANGED <<file, clock, bot, lastNotificationTimestamps, pc, nProbes,
                   nAdminOps, lastDelivered, delivered, maxLogId, probed, failed, cooldownFor>>

\* client.get throws inside the executor: the promise is rejected.  In
\* checkAllSites the per-site catch logs it and the loop goes on; POST /check/:id
\* has no catch and the handler ends there
OnGetThrows(p) ==
    /\ pc[p] = "checkWebsite"
    /\ getThrows(loc[p].site.url)
    /\ nProbes < MaxProbes
    /\ nProbes' = nProbes + 1
    /\ Go(p, Thrown(p, loc[p]))
    /\ probed' = probed \cup {<<loc[p].site.id, loc[p].site.url>>}
    /\ failed' = failed \cup {<<"checkWebsite", loc[p].site.id>>}
    /\ UNCHANGED <<file, clock, bot, lastNotificationTimestamps, nAdminOps,
                   lastDelivered, delivered, maxLogId, cooldownFor>>

\* addLog: readDB completes, newLog is pushed, writeDB is called
AddLogRead(p) ==
    /\ pc[p] = "addLog"
    /\ LET db == addLog(readDB, loc[p].site.id, loc[p].result, clock)
           newLog == db.logs[Len(db.logs)]
       IN  /\ Go(p, [pc |-> "addLog_writeDB", l |-> [loc[p] EXCEPT !.db = db]])
           /\ maxLogId' = IF newLog.id > maxLogId THEN newLog.id ELSE maxLogId
    /\ UNCHANGED <<file, clock, bot, lastNotificationTimestamps, nProbes,
                   nAdminOps, lastDelivered, delivered, probed, failed, cooldownFor>>

\* addLog: writeDB completes and addLog returns to the tick or to the handler
AddLogWrite(p) ==
    /\ pc[p] = "addLog_writeDB"
    /\ file' = writeDB(file, loc[p].db)
    /\ LET l == [loc[p] EXCEPT !.db = EmptyDB]
       IN  IF p \in Ticks
           THEN IF tickStatusChanged(l.previousLog, l.result)
                THEN Go(p, [pc |-> "readUsers", l |-> l])
                ELSE Go(p, NextSite(l))
           ELSE Go(p, Return(l))
    /\ UNCHANGED <<clock, bot, lastNotificationTimestamps, nProbes,
                   nAdminOps, lastDelivered, delivered, maxLogId, probed, failed, cooldownFor>>

\* const dbData = await db.readDB(); the fan-out over dbData.users starts
TickReadUsers(p) ==
    /\ pc[p] = "readUsers"
    /\ LET chats == ChatsOf(readDB.users)
       IN  Go(p, NextUser([loc[p] EXCEPT
                             !.chats = chats, !.u = 0,
                             !.currentLog = ResultAsLog(loc[p].result)]))
    /\ UNCHANGED <<file, clock, bot, lastNotificationTimestamps, nProbes,
                   nAdminOps, lastDelivered, delivered, maxLogId, probed, failed, cooldownFor>>

\* getAllSites rejects (fs.readFile or JSON.parse throws in readDB)
GetAllSitesFails(p) ==
    /\ p \in Ticks
    /\ pc[p] = "idle"
    /\ Go(p, sitesCatch(loc[p]))
    /\ failed' = failed \cup {<<"getAllSites", 0>>}
    /\ UNCHANGED <<file, clock, bot, lastNotificationTimestamps, nProbes,
                   nAdminOps, lastDelivered, delivered, maxLogId, probed, cooldownFor>>

\* getLatestLogs rejects
GetLatestLogsFails(p) ==
    /\ pc[p] = "getLatestLogs"
    /\ Go(p, sitesCatch(loc[p]))
    /\ failed' = failed \cup {<<"getLatestLogs", 0>>}
    /\ UNCHANGED <<file, clock, bot, lastNotificationTimestamps, nProbes,
                   nAdminOps, lastDelivered, delivered, maxLogId, probed, cooldownFor>>

\* addLog rejects: readDB throws, or writeDB throws before the file is touched
AddLogFails(p) ==
    /\ pc[p] \in {"addLog", "addLog_writeDB"}
    /\ Go(p, Thrown(p, [loc[p] EXCEPT !.db = EmptyDB]))
    /\ failed' = failed \cup {<<"addLog", loc[p].site.id>>}
    /\ UNCHANGED <<file, clock, bot, lastNotificationTimestamps, nProbes,
                   nAdminOps, lastDelivered, delivered, maxLogId, probed, cooldownFor>>

\* the readDB of the fan-out rejects
ReadUsersFails(p) ==
    /\ pc[p] = "readUsers"
    /\ Go(p, Thrown(p, loc[p]))
    /\ failed' = failed \cup {<<"readDB", loc[p].site.id>>}
    /\ UNCHANGED <<file, clock, bot, lastNotificationTimestamps, nProbes,
                   nAdminOps, lastDelivered, delivered, maxLogId, probed, cooldownFor>>

\* ------------------------------------------------------------ notifier
\* sendNotification up to its await of bot.sendMessage, with its parameters
\* and the caller's other locals in l
sendNotification(p, l) ==
    LET key == KeyOf(l.chatId, l.site)
    IN  IF ~bot \/ l.chatId = NoChat
        THEN Go(p, Returned(p, l, FALSE))
        ELSE IF ~statusChanged(l.previousLog, l.currentLog)
        THEN Go(p, Returned(p, l, FALSE))
        ELSE IF rateLimited(clock, lastNotificationTimestamps[key])
        THEN Go(p, Returned(p, l, FALSE))
        ELSE Go(p, [pc |-> "sendMessage",
                    l |-> [l EXCEPT !.now = clock,
                                    !.message = formatMessage(l.site, l.previousLog,
                                                              l.currentLog)]])

\* the scheduler's fan-out calls sendNotification for the next user
SendNotification(p) ==
    /\ pc[p] = "sendNotification"
    /\ sendNotification(p, loc[p])
    /\ UNCHANGED <<file, clock, bot, lastNotificationTimestamps, nProbes,
                   nAdminOps, lastDelivered, delivered, maxLogId, probed, failed, cooldownFor>>

\* bot.sendMessage resolves (ok) or rejects
SendMessageDone(p, ok) ==
    /\ pc[p] = "sendMessage"
    /\ LET l == loc[p]
           key == KeyOf(l.chatId, l.site)
       IN  /\ lastNotificationTimestamps' =
                  cooldownAfter(lastNotificationTimestamps, key, l.now, ok)
           /\ IF ok
              THEN /\ lastDelivered' = [lastDelivered EXCEPT ![key] =
                                          IF l.now > @ THEN l.now ELSE @]
                   /\ delivered' = [delivered EXCEPT ![key] = TRUE]
                   /\ cooldownFor' = [cooldownFor EXCEPT ![key] = l.site.url]
              ELSE UNCHANGED <<lastDelivered, delivered, cooldownFor>>
           /\ Go(p, Returned(p, l, ok))
    /\ UNCHANGED <<file, clock, bot, nProbes, nAdminOps, maxLogId, probed, failed>>

\* another caller of the exported sendNotification
CallSendNotification(p, chatId, site, previousLog, currentLog) ==
    /\ p \in Callers
    /\ pc[p] = "idle"
    /\ sendNotification(p, [Loc0 EXCEPT !.chatId = chatId, !.site = site,
                                        !.previousLog = previousLog,
                                        !.currentLog = currentLog])
    /\ UNCHANGED <<file, clock, bot, lastNotificationTimestamps, nProbes,
                   nAdminOps, lastDelivered, delivered, maxLogId, probed, failed, cooldownFor>>

\* ------------------------------------------------------------ HTTP handlers
\* POST /check/:id up to the probe
CheckGetSite(p, id) ==
    /\ p \in Checks
    /\ pc[p] = "idle"
    /\ LET site == getSiteById(readDB, id)
       IN  IF site = NoSite \/ site.is_paused
           THEN Go(p, Return(loc[p]))
           ELSE Go(p, [pc |-> "checkWebsite",
                       l |-> [Loc0 EXCEPT !.id = id, !.site = site]])
    /\ UNCHANGED <<file, clock, bot, lastNotificationTimestamps, nProbes,
                   nAdminOps, lastDelivered, delivered, maxLogId, probed, failed, cooldownFor>>

\* POST /delete/:id: deleteSite up to its writeDB
DeleteSiteRead(p, id) ==
    /\ p \in Admins
    /\ pc[p] = "idle"
    /\ nAdminOps < MaxAdminOps
    /\ nAdminOps' = nAdminOps + 1
    /\ LET db == readDB
       IN  IF FindSite(db, id) = NoSite
           THEN Go(p, Return(loc[p]))
           ELSE Go(p, [pc |-> "deleteSite_writeDB",
                       l |-> [Loc0 EXCEPT !.id = id, !.read = db,
                                         !.db = deleteSite(db, id)]])
    /\ UNCHANGED <<file, clock, bot, lastNotificationTimestamps, nProbes,
                   lastDelivered, delivered, maxLogId, probed, failed, cooldownFor>>

\* POST /site/:id/toggle-pause: togglePauseSite up to its writeDB
TogglePauseSiteRead(p, id) ==
    /\ p \in Admins
    /\ pc[p] = "idle"
    /\ nAdminOps < MaxAdminOps
    /\ nAdminOps' = nAdminOps + 1
    /\ LET db == readDB
       IN  IF FindSite(db, id) = NoSite
           THEN Go(p, Return(loc[p]))
           ELSE Go(p, [pc |-> "togglePauseSite_writeDB",
                       l |-> [Loc0 EXCEPT !.id = id, !.db = togglePauseSite(db, id)]])
    /\ UNCHANGED <<file, clock, bot, lastNotificationTimestamps, nProbes,
                   lastDelivered, delivered, maxLogId, probed, failed, cooldownFor>>

\* POST /add: addSite up to its writeDB
AddSiteRead(p, url) ==
    /\ p \in Admins
    /\ pc[p] = "idle"
    /\ nAdminOps < MaxAdminOps
    /\ nAdminOps' = nAdminOps + 1
    /\ LET db == readDB
       IN  IF \E i \in DOMAIN db.sites : db.sites[i].url = url
           THEN Go(p, Return(loc[p]))
           ELSE /\ addSite(db, url).sites[Len(db.sites) + 1].id <= MaxSiteId
                /\ Go(p, [pc |-> "addSite_writeDB",
                          l |-> [Loc0 EXCEPT !.db = addSite(db, url)]])
    /\ UNCHANGED <<file, clock, bot, lastNotificationTimestamps, nProbes,
                   lastDelivered, delivered, maxLogId, probed, failed, cooldownFor>>

\* writeDB of deleteSite, togglePauseSite or addSite completes
AdminWrite(p) ==
    /\ pc[p] \in {"deleteSite_writeDB", "togglePauseSite_writeDB", "addSite_writeDB"}
    /\ file' = writeDB(file, loc[p].db)
    /\ Go(p, Return(loc[p]))
    /\ UNCHANGED <<clock, bot, lastNotificationTimestamps, nProbes,
                   nAdminOps, lastDelivered, delivered, maxLogId, probed, failed, cooldownFor>>

\* getLogsBySiteId(site_id) is called and resolves
CallGetLogsBySiteId(p, site_id) ==
    /\ p \in Readers
    /\ pc[p] = "idle"
    /\ Go(p, [pc |-> "gotLogsBySiteId",
              l |-> [Loc0 EXCEPT !.id = site_id,
                                 !.logs = getLogsBySiteId(readDB, site_id)]])
    /\ UNCHANGED <<file, clock, bot, lastNotificationTimestamps, nProbes,
                   nAdminOps, lastDelivered, delivered, maxLogId, probed, failed, cooldownFor>>

\* getLatestLogs() is called and resolves
CallGetLatestLogs(p) ==
    /\ p \in Readers
    /\ pc[p] = "idle"
    /\ Go(p, [pc |-> "gotLatestLogs",
              l |-> [Loc0 EXCEPT !.latestLogs = getLatestLogs(readDB)]])
    /\ UNCHANGED <<file, clock, bot, lastNotificationTimestamps, nProbes,
                   nAdminOps, lastDelivered, delivered, maxLogId, probed, failed, cooldownFor>>

\* getUptimeStats(site_id) is called and resolves
CallGetUptimeStats(p, site_id) ==
    /\ p \in Readers
    /\ pc[p] = "idle"
    /\ Go(p, [pc |-> "gotUptimeStats",
              l |-> [Loc0 EXCEPT !.id = site_id, !.now = clock,
                                 !.stats = getUptimeStats(readDB, site_id, clock)]])
    /\ UNCHANGED <<file, clock, bot, lastNotificationTimestamps, nProbes,
                   nAdminOps, lastDelivered, delivered, maxLogId, probed, failed, cooldownFor>>

\* the handler has rendered the value
ReaderReturn(p) ==
    /\ pc[p] \in {"gotLogsBySiteId", "gotLatestLogs", "gotUptimeStats"}
    /\ Go(p, Return(loc[p]))
    /\ UNCHANGED <<file, clock, bot, lastNotificationTimestamps, nProbes,
                   nAdminOps, lastDelivered, delivered, maxLogId, probed, failed, cooldownFor>>

\* ------------------------------------------------------------------- time
Advance(limit) ==
    /\ clock < limit
    /\ clock' = clock + 1
    /\ UNCHANGED <<file, bot, lastNotificationTimestamps, pc, loc, nProbes,
                   nAdminOps, lastDelivered, delivered, maxLogId, probed, failed, cooldownFor>>

\* ------------------------------------------------------------ whole system
Site(id, url) == [id |-> id, url |-> url, is_paused |-> FALSE]

User(id, chat) == [id |-> id, telegram_chat_id |-> chat]

\* database.json as an earlier run of the server left it: two endpoints, one
\* observation of the first endpoint, and the given users
InitDB(users) ==
    addLog([sites |-> <<Site(1, "u1"), Site(2, "u2")>>, logs |-> <<>>, users |-> users],
           1, responseOutcome(200, 1), Clock0 - 1)

\* nobody has set a chat id
NoDestination == <<User(1, NoChat)>>

\* two of three users have set a chat id
TwoDestinations == <<User(1, "c1"), User(2, NoChat), User(3, "c2")>>

\* the state when startServer has run, for a file f and a bot that is configured
\* (TELEGRAM_BOT_TOKEN set) or not; the count of registry requests starts at
\* served (0, or -1 for a run with one request more than MaxAdminOps), the
\* count of probes at done (0, or -1 for a run with one probe more than
\* MaxProbes)
InitProbed(f, b, served, now, done) ==
    /\ file = f
    /\ clock = now
    /\ bot = b
    /\ lastNotificationTimestamps = [k \in Keys |-> 0]
    /\ pc = [p \in Procs |-> "idle"]
    /\ loc = [p \in Procs |-> Loc0]
    /\ nProbes = done
    /\ nAdminOps = served
    /\ lastDelivered = [k \in Keys |-> 0]
    /\ delivered = [k \in Keys |-> FALSE]
    /\ maxLogId = MaxOf({0} \cup {f.logs[k].id : k \in DOMAIN f.logs})
    /\ probed = {<<f.sites[i].id, f.sites[i].url>> : i \in
                    {j \in DOMAIN f.sites :
                       \E k \in DOMAIN f.logs : f.logs[k].site_id = f.sites[j].id}}
    /\ failed = {}
    /\ cooldownFor = [k \in Keys |-> "none"]

InitAt(f, b, served, now) == InitProbed(f, b, served, now, 0)

InitFrom(f, b, served) == InitAt(f, b, served, Clock0)

InitWith(f, b) == InitFrom(f, b, 0)

Init == InitWith(InitDB(NoDestination), TRUE)

InitTicks == InitWith(InitDB(TwoDestinations), TRUE)

\* one invocation of checkAllSites at a time in slot p, up to the fan-out
TickStoreNext(p) ==
    \/ TickGetAllSites(p)
    \/ TickGetLatestLogs(p)
    \/ \E result \in Outcomes : ProbeResolve(p, result)
    \/ AddLogRead(p)
    \/ AddLogWrite(p)
    \/ TickReadUsers(p)

\* one invocation of checkAllSites at a time in slot p
TickNext(p) ==
    \/ TickStoreNext(p)
    \/ SendNotification(p)
    \/ \E ok \in BOOLEAN : SendMessageDone(p, ok)

\* one request POST /check/:id at a time in slot p
CheckNext(p) ==
    \/ \E id \in SiteIds : CheckGetSite(p, id)
    \/ \E result \in Outcomes : ProbeResolve(p, result)
    \/ AddLogRead(p)
    \/ AddLogWrite(p)

\* one registry request at a time in slot p
AdminNext(p) ==
    \/ \E id \in SiteIds : DeleteSiteRead(p, id)
    \/ \E id \in SiteIds : TogglePauseSiteRead(p, id)
    \/ \E url \in Urls : AddSiteRead(p, url)
    \/ AdminWrite(p)

\* the scheduler next to one manual check and one registry request, when no
\* user has a chat id (every fan-out is empty)
Next ==
    \/ \E p \in {"t1"} : TickStoreNext(p)
    \/ \E p \in Checks : CheckNext(p)
    \/ \E p \in Admins : AdminNext(p)
    \/ Advance(MaxClock)

Spec == Init /\ [][Next]_vars

\* registry requests next to manual checks within one instant, no tick in
\* progress
NextRegistry ==
    \/ \E p \in Checks : CheckNext(p)
    \/ \E p \in Admins : AdminNext(p)

SpecRegistry == Init /\ [][NextRegistry]_vars

\* --------------------------------------- one endpoint, one destination
\* database.json with one endpoint, its first observation (UP, from a 200
\* response) and one user who has set a chat id
InitOneDB ==
    addLog([sites |-> <<Site(1, "u1")>>, logs |-> <<>>, users |-> <<User(1, "c1")>>],
           1, responseOutcome(200, 1), Clock0 - 1)

InitE2E == InitWith(InitOneDB, TRUE)

\* the scheduler alone, one tick after the other, with a transport that
\* accepts every message
NextE2E ==
    \/ \E p \in {"t1"} : TickStoreNext(p)
    \/ \E p \in {"t1"} : SendNotification(p)
    \/ \E p \in {"t1"} : SendMessageDone(p, TRUE)
    \/ Advance(MaxClock)

SpecE2E == InitE2E /\ [][NextE2E]_vars

\* the same endpoint and destination, with registry requests (one more than
\* MaxAdminOps) next to the scheduler
InitReuse == InitFrom(InitOneDB, TRUE, -1)

NextReuse ==
    \/ \E p \in {"t1"} : TickNext(p)
    \/ \E p \in Admins : AdminNext(p)

SpecReuse == InitReuse /\ [][NextReuse]_vars

\* the same, with room for one probe more than MaxProbes: an alert for the
\* endpoint, its deletion, a registration, and two probes of the new endpoint
InitLeak == InitProbed(InitOneDB, TRUE, -1, Clock0, -1)

SpecLeak == InitLeak /\ [][NextReuse]_vars

\* ------------------------------------------------- the probe in detail
StatusCodes == {199, 200, 399, 400, 404}
ResponseTimes == {0, 1}
ErrorMessages == {"connect ECONNREFUSED"}

\* three registered addresses, one of them with a scheme that is neither http
\* nor https (POST /add accepts whatever new URL() parses); nothing observed yet
InitProbeDB ==
    [sites |-> <<Site(1, "u1"), Site(2, "u2"), Site(3, "u4")>>,
     logs |-> <<>>,
     users |-> NoDestination]

InitProbe == InitWith(InitProbeDB, TRUE)

\* one request POST /check/:id at a time in slot p, with every event of the
\* request the probe listens to
CheckProbeNext(p) ==
    \/ \E id \in SiteIds : CheckGetSite(p, id)
    \/ \E statusCode \in StatusCodes, responseTime \in ResponseTimes :
          OnResponse(p, statusCode, responseTime)
    \/ OnTimeout(p)
    \/ \E message \in ErrorMessages : OnError(p, message)
    \/ OnGetThrows(p)
    \/ AddLogRead(p)
    \/ AddLogWrite(p)

NextProbe == \E p \in Checks : CheckProbeNext(p)

\* the same, with the events a request emits after its first one
LateEvents == { errorOutcome("socket hang up"), timeoutOutcome }

CheckLateNext(p) ==
    \/ CheckProbeNext(p)
    \/ \E value \in LateEvents : OnLateEvent(p, value)

NextLate == \E p \in Checks : CheckLateNext(p)

SpecLate == InitProbe /\ [][NextLate]_vars

SpecProbe == InitProbe /\ [][NextProbe]_vars

\* the scheduler, one tick after the other, next to one registry request
NextSched ==
    \/ \E p \in {"t1"} : TickStoreNext(p)
    \/ \E p \in Admins : AdminNext(p)

SpecSched == Init /\ [][NextSched]_vars

\* --------------------------------------------------- a tick with failures
\* database.json whose first endpoint has a scheme http.get refuses; nothing
\* observed yet
InitThrowDB ==
    [sites |-> <<Site(1, "u4"), Site(2, "u2")>>,
     logs |-> <<>>,
     users |-> TwoDestinations]

InitFail ==
    \/ InitWith(InitDB(TwoDestinations), TRUE)
    \/ InitWith(InitThrowDB, TRUE)
    \/ InitWith(InitOneDB, TRUE)

\* one invocation of checkAllSites at a time in slot p, where every await may
\* reject
TickFailNext(p) ==
    \/ TickNext(p)
    \/ OnGetThrows(p)
    \/ GetAllSitesFails(p)
    \/ GetLatestLogsFails(p)
    \/ AddLogFails(p)
    \/ ReadUsersFails(p)

NextFail == \E p \in {"t1"} : TickFailNext(p)

SpecFail == InitFail /\ [][NextFail]_vars

\* ------------------------------------------------- the query functions
\* Date.now() when the queries run
QueryNow == Week + 2

\* checked_at of the stored observations: just before the 7-day window, its
\* first instant, just before the 24-hour window, its first instant
QueryTimes == {QueryNow - Week - 1, QueryNow - Week, QueryNow - Day - 1, QueryNow - Day}

\* (site_id, status, checked_at) of a stored observation
QueryChoices ==
    ({1} \X {"UP", "DOWN"} \X QueryTimes) \cup ({2} \X {"DOWN"} \X {QueryNow - Day})

\* the observation addLog stored k-th, for a probe with the chosen outcome
QueryLog(k, choice) ==
    LET result == IF choice[2] = "UP" THEN responseOutcome(200, 1) ELSE timeoutOutcome
    IN  [id |-> k, site_id |-> choice[1], status |-> result.status,
         response_time |-> result.responseTime, details |-> result.details,
         checked_at |-> choice[3]]

\* database.json with two endpoints and up to MaxLogs observations, with
\* timestamps in any order (the wall clock can be set back between appends)
QueryDBs ==
    { [sites |-> <<Site(1, "u1"), Site(2, "u2")>>,
       logs |-> [k \in DOMAIN choices |-> QueryLog(k, choices[k])],
       users |-> NoDestination] :
      choices \in UNION { [1 .. n -> QueryChoices] : n \in 0 .. MaxLogs } }

InitQuery == \E f \in QueryDBs : InitAt(f, TRUE, 0, QueryNow)

\* one call of a query function at a time in slot p
ReaderNext(p) ==
    \/ \E site_id \in {1, 2} : CallGetLogsBySiteId(p, site_id)
    \/ CallGetLatestLogs(p)
    \/ \E site_id \in {1, 2} : CallGetUptimeStats(p, site_id)
    \/ ReaderReturn(p)

NextQuery == \E p \in Readers : ReaderNext(p)

SpecQuery == InitQuery /\ [][NextQuery]_vars

\* ------------------------------------------------ a tick to its end
\* one invocation of checkAllSites at a time in slot p, with the events of the
\* probe's socket
TickLiveNext(p) ==
    \/ TickGetAllSites(p)
    \/ TickGetLatestLogs(p)
    \/ \E statusCode \in {200, 404} : OnResponse(p, statusCode, 1)
    \/ \E message \in ErrorMessages : OnError(p, message)
    \/ SocketIdle(p)
    \/ OnSocketData(p)
    \/ OnSocketTimeout(p)
    \/ AddLogRead(p)
    \/ AddLogWrite(p)
    \/ TickReadUsers(p)
    \/ SendNotification(p)
    \/ \E ok \in BOOLEAN : SendMessageDone(p, ok)

NextLive ==
    \/ \E p \in {"t1"} : TickLiveNext(p)
    \/ Advance(MaxClock)

\* the event loop runs every continuation that is ready: file reads and writes
\* complete, sendMessage settles, time passes on an open socket and its idle
\* timer fires when it has run out.  What the probed server sends, and when,
\* is up to the server
FairLive(p) ==
    /\ WF_vars(TickGetLatestLogs(p))
    /\ WF_vars(SocketIdle(p))
    /\ WF_vars(OnSocketTimeout(p))
    /\ WF_vars(AddLogRead(p))
    /\ WF_vars(AddLogWrite(p))
    /\ WF_vars(TickReadUsers(p))
    /\ WF_vars(SendNotification(p))
    /\ WF_vars(\E ok \in BOOLEAN : SendMessageDone(p, ok))

SpecLive == InitE2E /\ [][NextLive]_vars /\ FairLive("t1")

\* overlapping invocations of checkAllSites (cron, startup timer, check-all)
NextTicks ==
    \/ \E p \in Ticks : TickNext(p)
    \/ Advance(MaxClock)

SpecTicks == InitTicks /\ [][NextTicks]_vars

\* ----------------------------------------------------- the notifier alone
LogOf(status) ==
    [id |-> 1, site_id |-> 1, status |-> status, response_time |-> Undefined,
     details |-> "Status code: 200", checked_at |-> Undefined]

\* (chatId, site) of the calls: no chat id, one key, the same destination for
\* another endpoint, another destination for the same endpoint
ArgTargets == { <<NoChat, Site(1, "u1")>>, <<"c1", Site(1, "u1")>>,
                <<"c1", Site(2, "u2")>>, <<"c2", Site(1, "u1")>> }
ArgPreviousLogs == {NoLog, LogOf("UP"), LogOf("DOWN")}
ArgCurrentLogs == {LogOf("UP"), LogOf("DOWN")}

InitNotify == \E b \in BOOLEAN : InitWith(InitDB(TwoDestinations), b)

CallerNext(p) ==
    \/ \E target \in ArgTargets,
          previousLog \in ArgPreviousLogs, currentLog \in ArgCurrentLogs :
            CallSendNotification(p, target[1], target[2], previousLog, currentLog)
    \/ \E ok \in BOOLEAN : SendMessageDone(p, ok)

\* sendNotification called directly, by up to two overlapping callers
NextNotify ==
    \/ \E p \in Callers : CallerNext(p)
    \/ Advance(MaxCallClock)

SpecNotify == InitNotify /\ [][NextNotify]_vars

\* sendNotification called directly, one call after the other
NextSeq ==
    \/ \E p \in {"n1"} : CallerNext(p)
    \/ Advance(MaxCallClock)

SpecSeq == InitNotify /\ [][NextSeq]_vars

\* ------------------------------------------------------------------ claims
SiteIdsIn(db) == {db.sites[i].id : i \in DOMAIN db.sites}

LogsOf(db, id) == SelectSeq(db.logs, LAMBDA log : log.site_id = id)

LogsNotOf(db, id) == SelectSeq(db.logs, LAMBDA log : log.site_id # id)

Dist(a, b) == IF a >= b THEN a - b ELSE b - a

\* C1: when addLog calls overlap, no append is lost and no identifier is
\* duplicated: every observation that is in the store when an addLog's write
\* lands is still there afterwards, and the stored identifiers are distinct.
C1_AppendsSerialised ==
    [][\A p \in Procs :
         (pc[p] = "addLog_writeDB" /\ pc'[p] # "addLog_writeDB") =>
            /\ \A k \in DOMAIN file.logs : file.logs[k] \in Range(file'.logs)
            /\ \A a, b \in DOMAIN file'.logs :
                 a # b => file'.logs[a].id # file'.logs[b].id]_vars

\* C2: in every reachable state no stored observation references an endpoint
\* id that is not in the registry.
C2_NoOrphanObservation ==
    \A k \in DOMAIN file.logs : file.logs[k].site_id \in SiteIdsIn(file)

\* C3: when deleteSite(E) writes what it computed from the file as it still is
\* (nothing was written between its read and its write), the store afterwards
\* has no observation of E, E is not in the registry, and the observations of
\* every other endpoint are unchanged.
C3_DeleteRemovesObservations ==
    [][\A p \in Admins :
         (/\ pc[p] = "deleteSite_writeDB"
          /\ pc'[p] = "idle"
          /\ loc[p].read = file) =>
            /\ LogsOf(file', loc[p].id) = <<>>
            /\ loc[p].id \notin SiteIdsIn(file')
            /\ LogsNotOf(file', loc[p].id) = LogsNotOf(file, loc[p].id)]_vars

\* C3 witness: endpoint 1, which had an observation, has been deleted while
\* observations of endpoint 2 are stored.
C3_Witness ==
    /\ pc["a1"] = "idle"
    /\ nAdminOps = 1
    /\ 1 \notin SiteIdsIn(file)
    /\ LogsOf(file, 1) = <<>>
    /\ LogsOf(file, 2) # <<>>

\* C4: no two probes are in flight for the same endpoint, and each endpoint's
\* observations are strictly ordered by checked_at in append order.
C4_OneProbePerEndpoint ==
    /\ \A p, q \in Procs :
         (p # q /\ pc[p] = "checkWebsite" /\ pc[q] = "checkWebsite")
            => loc[p].site.id # loc[q].site.id
    /\ \A a, b \in DOMAIN file.logs :
         (a < b /\ file.logs[a].site_id = file.logs[b].site_id)
            => file.logs[a].checked_at < file.logs[b].checked_at

\* C5: at most one execution of checkAllSites is in progress at any time.
C5_OneTickAtATime ==
    Cardinality({p \in Ticks : pc[p] # "idle"}) <= 1

\* C6: for every key, a notification is never delivered by a call made less
\* than one hour from the call of another delivered notification of that key.
C6_CooldownSerialised ==
    [][\A p \in Callers :
         (pc[p] = "sendMessage" /\ pc'[p] = "idle" /\ loc'[p].ret) =>
            LET key == KeyOf(loc[p].chatId, loc[p].site)
            IN  delivered[key] => Dist(loc[p].now, lastDelivered[key]) >= OneHour]_vars

\* C7: sequential calls, time of a call = the Date.now() it reads.  After a
\* delivery for a key by a call at t, a qualifying call for that key at t' is
\* suppressed (returns false, sendMessage not called) if t' - t < 1 hour and
\* reaches sendMessage if t' - t >= 1 hour, whatever was delivered for other
\* keys; a delivery changes no other key's cooldown entry.
C7_CooldownSequential ==
    [][/\ (pc["n1"] = "idle" /\ bot) =>
            \A target \in ArgTargets, previousLog \in ArgPreviousLogs,
               currentLog \in ArgCurrentLogs :
               LET key == KeyOf(target[1], target[2])
               IN  (/\ target[1] # NoChat
                    /\ previousLog # NoLog
                    /\ previousLog.status # currentLog.status
                    /\ delivered[key]
                    /\ CallSendNotification("n1", target[1], target[2],
                                            previousLog, currentLog)) =>
                       IF clock - lastDelivered[key] < OneHour
                       THEN /\ pc'["n1"] = "idle"
                            /\ loc'["n1"].ret = FALSE
                       ELSE pc'["n1"] = "sendMessage"
       /\ \A key \in Keys :
            lastNotificationTimestamps'[key] # lastNotificationTimestamps[key]
               => /\ pc["n1"] = "sendMessage"
                  /\ key = KeyOf(loc["n1"].chatId, loc["n1"].site)]_vars

\* C7 witness: a second call for a key reached sendMessage a full hour after
\* the call that was delivered for that key.
C7_Witness ==
    LET key == KeyOf(loc["n1"].chatId, loc["n1"].site)
    IN  /\ pc["n1"] = "sendMessage"
        /\ delivered[key]
        /\ loc["n1"].now = lastDelivered[key] + OneHour

\* C8: the cooldown map changes only when sendMessage succeeded, and then the
\* call's key is set to the call's now and the call returns true; a call
\* without bot or chat id, without status change, inside the cooldown, or
\* whose sendMessage fails returns false and leaves the map unchanged.
C8_CooldownOnlyOnSuccess ==
    [][\A p \in Callers :
         /\ SendMessageDone(p, TRUE) =>
               /\ loc'[p].ret = TRUE
               /\ lastNotificationTimestamps' =
                     [lastNotificationTimestamps EXCEPT
                        ![KeyOf(loc[p].chatId, loc[p].site)] = loc[p].now]
         /\ SendMessageDone(p, FALSE) =>
               /\ loc'[p].ret = FALSE
               /\ lastNotificationTimestamps' = lastNotificationTimestamps
         /\ (pc[p] = "idle" /\ <<pc'[p], loc'[p]>> # <<pc[p], loc[p]>>) =>
               /\ lastNotificationTimestamps' = lastNotificationTimestamps
               /\ \/ pc'[p] = "idle" /\ loc'[p].ret = FALSE
                  \/ \A target \in ArgTargets, previousLog \in ArgPreviousLogs,
                        currentLog \in ArgCurrentLogs :
                        (\/ ~bot
                         \/ target[1] = NoChat
                         \/ previousLog = NoLog
                         \/ previousLog.status = currentLog.status
                         \/ clock - lastNotificationTimestamps[KeyOf(target[1], target[2])]
                               < OneHour)
                           => ~CallSendNotification(p, target[1], target[2],
                                                    previousLog, currentLog)]_vars

\* C8 witness: a call has returned true and a key's entry holds a time later
\* than the start, while another call has returned false.
C8_Witness ==
    /\ pc["n1"] = "idle"
    /\ loc["n1"].ret = TRUE
    /\ pc["n2"] = "idle"
    /\ loc["n2"].ret = FALSE
    /\ \E key \in Keys : lastNotificationTimestamps[key] > Clock0

\* C9: in the fan-out of a transition, whatever happens to the call for one
\* destination (delivered, transport failure, cooldown suppression), the call
\* for the next destination is made and no other key's cooldown entry changes.
C9_FanOutIsolation ==
    [][\A p \in Ticks :
         (/\ pc[p] \in {"sendNotification", "sendMessage"}
          /\ loc[p].u < Len(loc[p].chats)
          /\ (pc'[p] \notin {"sendNotification", "sendMessage"}
                \/ loc'[p].u # loc[p].u)) =>
            /\ pc'[p] = "sendNotification"
            /\ loc'[p].u = loc[p].u + 1
            /\ loc'[p].chatId = loc[p].chats[loc[p].u + 1]
            /\ \A key \in Keys :
                 key # KeyOf(loc[p].chatId, loc[p].site) =>
                    lastNotificationTimestamps'[key] = lastNotificationTimestamps[key]]_vars

\* C9 witness: the call for the second destination is being made although
\* nothing was delivered to the first destination (its sendMessage failed).
C9_Witness ==
    \E p \in Ticks :
        /\ pc[p] = "sendNotification"
        /\ loc[p].u = 2
        /\ lastNotificationTimestamps[KeyOf(loc[p].chats[1], loc[p].site)] = 0

\* C10: for every previous observation (or none) and new outcome the scheduler
\* holds, its change decision and sendNotification's decision both equal
\* "a previous observation exists and its status differs", and the scheduler
\* is in the fan-out only when the decision is true.
C10_ChangeDecision ==
    \A p \in Ticks :
        pc[p] \in {"addLog", "addLog_writeDB", "readUsers", "sendNotification",
                   "sendMessage"} =>
            LET previousLog == loc[p].previousLog
                result == loc[p].result
                differs == previousLog # NoLog /\ previousLog.status # result.status
            IN  /\ tickStatusChanged(previousLog, result) = differs
                /\ statusChanged(previousLog, ResultAsLog(result)) = differs
                /\ pc[p] \in {"readUsers", "sendNotification", "sendMessage"} => differs

\* C10 witness: the scheduler holds a DOWN -> UP transition and sendNotification
\* has passed its own check; another state holds UP -> UP before the decision.
C10_Witness ==
    \E p \in Ticks :
        /\ pc[p] = "sendMessage"
        /\ loc[p].previousLog.status = "DOWN"
        /\ loc[p].result.status = "UP"

\* C11: the first probe of an endpoint (it was never probed, so no observation
\* of it is stored) never leads to a notification attempt, whatever its
\* status: the scheduler is never in the fan-out for an endpoint's first probe.
C11_FirstProbeSilent ==
    \A p \in Ticks :
        pc[p] \in {"readUsers", "sendNotification", "sendMessage"} => ~loc[p].first

\* the stored statuses, in append order
Statuses(db) == [k \in DOMAIN db.logs |-> db.logs[k].status]

\* C12: one endpoint, one destination, empty cooldown, a transport that
\* accepts the message, scheduled probes UP, DOWN (timeout), DOWN.  While the
\* stored statuses are a prefix of UP, DOWN, DOWN a notification is delivered
\* only for the UP -> DOWN transition and only if none was delivered before;
\* when the tick of the second probe ends one has been delivered; the third
\* probe leaves the scheduler outside the fan-out.
C12_EndToEnd ==
    [][LET key == <<"c1", 1>>
           Scenario == { <<"UP">>, <<"UP", "DOWN">>, <<"UP", "DOWN", "DOWN">> }
       IN  /\ (SendMessageDone("t1", TRUE) /\ Statuses(file) \in Scenario) =>
                 /\ Statuses(file) = <<"UP", "DOWN">>
                 /\ loc["t1"].previousLog.status = "UP"
                 /\ loc["t1"].result = timeoutOutcome
                 /\ ~delivered[key]
           /\ (Statuses(file') = <<"UP", "DOWN">> /\ pc'["t1"] = "idle") =>
                 delivered'[key]
           /\ Statuses(file') = <<"UP", "DOWN", "DOWN">> =>
                 /\ delivered'[key]
                 /\ pc'["t1"] \notin {"readUsers", "sendNotification", "sendMessage"}
                 /\ lastNotificationTimestamps'[key] = lastDelivered'[key]]_vars

\* C12 witness: UP, DOWN (timeout), DOWN are stored, the last tick has ended
\* and the one notification was delivered.
C12_Witness ==
    /\ Statuses(file) = <<"UP", "DOWN", "DOWN">>
    /\ file.logs[2].details = "Request timed out after 15 seconds."
    /\ pc["t1"] = "idle"
    /\ delivered[<<"c1", 1>>]

\* C13: a manual check does what a scheduled probe of the endpoint does: when
\* its append lands, it goes on to the notification fan-out exactly when the
\* endpoint has a latest stored observation whose status differs from the new
\* one.
C13_ManualCheckAsTick ==
    [][\A p \in Checks :
         (pc[p] = "addLog_writeDB" /\ pc'[p] # "addLog_writeDB") =>
            LET previousLog == getLatestLogs(file)[loc[p].site.id]
            IN  tickStatusChanged(previousLog, loc[p].result)
                   <=> (pc'[p] = "readUsers")]_vars

\* C14: whatever the address and the network do, the wait for checkWebsite
\* ends with a resolved outcome value {status, responseTime, details} in the
\* caller's hands (the caller goes on to addLog with it); it never ends by a
\* rejection.
C14_ProbeNeverRejects ==
    [][\A p \in Procs :
         (pc[p] = "checkWebsite" /\ pc'[p] # "checkWebsite") =>
            /\ pc'[p] = "addLog"
            /\ loc'[p].result.status \in {"UP", "DOWN"}
            /\ loc'[p].result.responseTime # Undefined
            /\ loc'[p].result.details # "none"]_vars

\* C15: every stored observation has a non-null response_time if and only if
\* its status is UP.
C15_LatencyIffUp ==
    \A k \in DOMAIN file.logs :
        (file.logs[k].response_time # Null) <=> (file.logs[k].status = "UP")

C17_TimeoutOutcome ==
    [][\A p \in Checks :
         OnTimeout(p) =>
            /\ loc'[p].result = [status |-> "DOWN", responseTime |-> Null,
                                 details |-> "Request timed out after 15 seconds."]
            /\ loc'[p].reqDestroyed]_vars

\* C17 witness: a probe that timed out is about to be appended, its request
\* destroyed.
C17_Witness ==
    \E p \in Checks :
        /\ pc[p] = "addLog"
        /\ loc[p].reqDestroyed
        /\ loc[p].result.details = "Request timed out after 15 seconds."

\* C18: every identifier addLog assigns is strictly greater than every
\* identifier an earlier addLog assigned, also after observations were removed
\* by deleteSite.
C18_IdentifiersNeverReused ==
    [][\A p \in Procs :
         (pc[p] = "addLog" /\ pc'[p] = "addLog_writeDB") =>
            loc'[p].db.logs[Len(loc'[p].db.logs)].id > maxLogId]_vars

\* C19: an observation that is in the store stays there, with the same fields,
\* across every step of every store operation, except the write of a
\* deleteSite of its owning endpoint.
C19_ObservationsImmutable ==
    [][\A k \in DOMAIN file.logs :
         \/ file.logs[k] \in Range(file'.logs)
         \/ \E p \in Admins :
              /\ pc[p] = "deleteSite_writeDB"
              /\ pc'[p] = "idle"
              /\ loc[p].id = file.logs[k].site_id]_vars

\* C20: the write of an addLog leaves the registry as it is: the same
\* endpoints, each with the same url and paused flag.
C20_AppendLeavesRegistry ==
    [][\A p \in Procs :
         (pc[p] = "addLog_writeDB" /\ pc'[p] # "addLog_writeDB") =>
            file'.sites = file.sites]_vars

\* C21: a tick reads the registry when it starts and probes exactly the
\* endpoints that are unpaused in that read: its list holds each of them once
\* and nothing else (an endpoint paused or deleted before is not in it), the
\* list does not change during the tick, the probes go through it one position
\* at a time, each probe is of the endpoint at the current position, and the
\* tick ends behind the last position.
C21_TickProbesUnpausedOfItsRead ==
    [][\A p \in Ticks :
         /\ (pc[p] = "idle" /\ pc'[p] # "idle") =>
               LET a == loc'[p].activeSites
               IN  /\ Range(a) \subseteq Range(file.sites)
                   /\ \A site \in Range(file.sites) :
                         (site \in Range(a)) <=> ~site.is_paused
                   /\ \A j, k \in DOMAIN a : a[j].id = a[k].id => j = k
                   /\ loc'[p].i = 0
         /\ (pc[p] # "idle" /\ pc'[p] # "idle") =>
               loc'[p].activeSites = loc[p].activeSites
         /\ (pc'[p] = "checkWebsite"
               /\ (pc[p] # "checkWebsite" \/ loc'[p].i # loc[p].i)) =>
               /\ loc'[p].i = loc[p].i + 1
               /\ loc'[p].site = loc[p].activeSites[loc'[p].i]
         /\ (pc[p] = "checkWebsite" /\ pc'[p] # "checkWebsite") =>
               probed' = probed \cup {<<loc[p].activeSites[loc[p].i].id,
                                        loc[p].activeSites[loc[p].i].url>>}
         /\ (pc[p] # "idle" /\ pc'[p] = "idle") =>
               loc[p].i = Len(loc[p].activeSites)
      ]_vars

\* a tick has probed an endpoint while another endpoint, paused before the
\* tick read the registry, is not in its list
C21_Witness ==
    \E p \in Ticks :
       /\ pc[p] = "addLog"
       /\ \E site \in Range(file.sites) :
             /\ site.is_paused
             /\ \A a \in Range(loc[p].activeSites) : a.id # site.id

C23_NoFailureEscapes ==
    [][\A p \in Ticks :
         /\ pc'[p] # "rejected"
         /\ (\/ GetAllSitesFails(p) \/ GetLatestLogsFails(p)
             \/ OnGetThrows(p) \/ AddLogFails(p)
             \/ ReadUsersFails(p) \/ SendMessageDone(p, FALSE)) =>
               pc'[p] \in {"idle", "checkWebsite", "sendNotification"}
      ]_vars

\* the read of the latest observations has failed in one tick and a later tick
\* has probed an endpoint
C23_Witness ==
    /\ <<"getLatestLogs", 0>> \in failed
    /\ <<"getAllSites", 0>> \in failed
    /\ \E p \in Ticks : pc[p] = "addLog"

\* C24: getLogsBySiteId returns exactly the stored observations of the
\* endpoint, each once, ordered by checked_at descending, and the entry of
\* getLatestLogs for the endpoint is the first element of that sequence (no
\* entry when the sequence is empty), also when timestamps are equal.
C24_HistoryAgreesWithLatest ==
    \A p \in Readers :
       pc[p] = "gotLogsBySiteId" =>
          LET h == loc[p].logs
              stored == LogsOf(file, loc[p].id)
          IN  /\ Len(h) = Len(stored)
              /\ Range(h) = Range(stored)
              /\ \A j \in 1 .. Len(h) - 1 : h[j].checked_at >= h[j + 1].checked_at
              /\ getLatestLogs(file)[loc[p].id] = IF h = <<>> THEN NoLog ELSE h[1]

\* a history whose two newest observations have the same timestamp
C24_Witness ==
    \E p \in Readers :
       /\ pc[p] = "gotLogsBySiteId"
       /\ Len(loc[p].logs) >= 3
       /\ loc[p].logs[1].checked_at = loc[p].logs[2].checked_at
       /\ loc[p].logs[2].checked_at > loc[p].logs[3].checked_at

\* C25: getLatestLogs has an entry for an endpoint id exactly when an
\* observation with that id is stored, and the entry is a stored observation of
\* the endpoint that no other observation of the endpoint is newer than.
C25_LatestIsNewest ==
    \A p \in Readers :
       pc[p] = "gotLatestLogs" =>
          \A id \in SiteIds :
             LET entry == loc[p].latestLogs[id]
                 stored == Range(LogsOf(file, id))
             IN  /\ (entry # NoLog) <=> (stored # {})
                 /\ entry # NoLog =>
                       /\ entry \in stored
                       /\ \A log \in stored : log.checked_at <= entry.checked_at

\* an entry for the first endpoint whose newest observation is not the last
\* one stored, and no entry for the second endpoint
C25_Witness ==
    \E p \in Readers :
       /\ pc[p] = "gotLatestLogs"
       /\ loc[p].latestLogs[2] = NoLog
       /\ loc[p].latestLogs[1] # NoLog
       /\ \E k \in DOMAIN file.logs :
             /\ file.logs[k].id > loc[p].latestLogs[1].id
             /\ file.logs[k].checked_at < loc[p].latestLogs[1].checked_at

\* the text of the nearest number with two decimals to 100 * up / total
Percent(up, total) ==
    LET floor == (10000 * up) \div total
        h == IF 2 * (10000 * up - floor * total) >= total THEN floor + 1 ELSE floor
    IN  ToString(h \div 100) \o "." \o
        (IF h % 100 < 10 THEN "0" ELSE "") \o ToString(h % 100)

\* the observations of endpoint id with checked_at >= since
InWindow(db, id, since) ==
    {k \in DOMAIN db.logs : db.logs[k].site_id = id /\ db.logs[k].checked_at >= since}

\* what C26 says of the value for one window
UptimeAsClaimed(value, db, id, since) ==
    LET total == Cardinality(InWindow(db, id, since))
        up == Cardinality({k \in InWindow(db, id, since) : db.logs[k].status = "UP"})
    IN  /\ (value = "N/A") <=> (total = 0)
        /\ total > 0 => value = Percent(up, total) \o "%"
        /\ (up = 3 /\ total = 4) => value = "75.00%"

\* C26: for either window, getUptimeStats gives N/A exactly when no
\* observation of the endpoint has checked_at >= now - window, and otherwise
\* 100 * UP / total of the observations of the endpoint in the window, to two
\* decimals (75.00 for 3 UP and 1 DOWN); nothing else enters the value.
C26_WindowedUptime ==
    \A p \in Readers :
       pc[p] = "gotUptimeStats" =>
          /\ UptimeAsClaimed(loc[p].stats.h24, file, loc[p].id, loc[p].now - Day)
          /\ UptimeAsClaimed(loc[p].stats.d7, file, loc[p].id, loc[p].now - Week)

\* 3 UP and 1 DOWN in the 24-hour window
C26_Witness ==
    \E p \in Readers :
       /\ pc[p] = "gotUptimeStats"
       /\ loc[p].stats.h24 = "75.00%"
       /\ Cardinality(InWindow(file, loc[p].id, loc[p].now - Day)) = 4

FanOut == {"readUsers", "sendNotification", "sendMessage"}

\* C27: a tick enters the notification of an endpoint only from the completed
\* write of addLog, which leaves the new observation as the last one of the
\* store, and no step of the notification (the read of the users, a call of
\* sendNotification, a delivered or a failed sendMessage) changes the store.
C27_PersistedBeforeNotification ==
    [][\A p \in Ticks :
         /\ (pc'[p] \in FanOut /\ pc[p] \notin FanOut) =>
               /\ pc[p] = "addLog_writeDB"
               /\ pc'[p] = "readUsers"
               /\ file'.logs # <<>>
               /\ LET newLog == file'.logs[Len(file'.logs)]
                  IN  /\ newLog.site_id = loc[p].site.id
                      /\ newLog.status = loc[p].result.status
                      /\ newLog.response_time = loc[p].result.responseTime
                      /\ newLog.details = loc[p].result.details
                      /\ newLog.checked_at <= clock
         /\ (pc[p] \in FanOut /\ (pc'[p] # pc[p] \/ loc'[p] # loc[p])) =>
               file' = file
      ]_vars

\* a message is on its way while the observation that caused it is the last
\* one of the store
C27_Witness ==
    \E p \in Ticks :
       /\ pc[p] = "sendMessage"
       /\ file.logs[Len(file.logs)].site_id = loc[p].site.id
       /\ file.logs[Len(file.logs)].status = loc[p].result.status
       /\ file.logs[Len(file.logs)].status # loc[p].previousLog.status

\* C28: the message handed to sendMessage names the transition, the address of
\* the endpoint, the details of the new observation, the timestamp of the
\* stored observation and, when the stored observation has a latency, that
\* latency.
C28_MessageContent ==
    \A p \in Ticks :
       pc[p] = "sendMessage" =>
          LET m == loc[p].message
              stored == file.logs[Len(file.logs)]
          IN  /\ m.statusChange = loc[p].previousLog.status \o " -> " \o stored.status
              /\ m.site = loc[p].site.url
              /\ m.details = stored.details
              /\ m.checkedAt = ToString(stored.checked_at)
              /\ stored.response_time # Null =>
                    m.responseTime = ToString(stored.response_time) \o "ms"

\* C29: the alerts for an endpoint go to the destinations of the endpoint's
\* owner only: whoever of the users the owner is, no alert for the endpoint is
\* delivered to the destination of another user.
C29_OnlyAssociatedDestinations ==
    \A id \in SiteIds :
       \E owner \in Range(file.users) :
          \A chatId \in ChatIds :
             delivered[<<chatId, id>>] => chatId = owner.telegram_chat_id

\* C30: a tick that is waiting for a probe it can still count ends, whatever
\* the probed server does.
C30_TickTerminates ==
    (pc["t1"] = "checkWebsite" /\ nProbes < MaxProbes) ~> (pc["t1"] = "idle")

\* C31: when the append of a tick lands, the observation the tick compares its
\* outcome against is the one that comes right before the new observation in
\* the stored history of the endpoint (none when the new one is the first).
C31_PreviousIsPredecessor ==
    [][\A p \in Ticks :
         AddLogWrite(p) =>
            LET h == LogsOf(file', loc[p].site.id)
            IN  loc[p].previousLog = IF Len(h) >= 2 THEN h[Len(h) - 1] ELSE NoLog
      ]_vars

\* C32: the outcome of a probe is the one of the first event of its request:
\* a later event of the same request changes neither the outcome the caller
\* holds nor the caller's position nor the store, the caller is resumed once
\* per probe, and the observation it appends has the first outcome.
C32_FirstEventWins ==
    [][\A p \in Checks :
         /\ (loc[p].events >= 1 /\ loc'[p].events >= 1) =>
               loc'[p].result = loc[p].result
         /\ (loc[p].events = 1 /\ loc'[p].events = 2) =>
               /\ pc' = pc
               /\ file' = file
               /\ nProbes' = nProbes
         /\ (pc[p] = "checkWebsite" /\ pc'[p] = "addLog") =>
               /\ nProbes' = nProbes + 1
               /\ loc'[p].events = 1
         /\ AddLogWrite(p) =>
               /\ file'.logs[Len(file'.logs)].status = loc[p].result.status
               /\ file'.logs[Len(file'.logs)].details = loc[p].result.details
      ]_vars

\* the request was aborted by the 'timeout' listener, its 'error' event came
\* afterwards, and the caller still holds the timeout outcome
C32_Witness ==
    \E p \in Checks :
       /\ pc[p] = "addLog_writeDB"
       /\ loc[p].events = 2
       /\ loc[p].reqDestroyed
       /\ loc[p].result = timeoutOutcome

\* the timestamps of the stored observations of endpoint id are distinct
DistinctTimes(db, id) ==
    \A j, k \in DOMAIN db.logs :
       (/\ db.logs[j].site_id = id /\ db.logs[k].site_id = id
        /\ db.logs[j].checked_at = db.logs[k].checked_at) => j = k

C34_NoAppendWhilePaused ==
    [][\A p \in Ticks \cup Checks :
         AddLogWrite(p) =>
            ~\E k \in DOMAIN file.sites :
                 file.sites[k].id = loc[p].site.id /\ file.sites[k].is_paused
      ]_vars

\* C35: a call of the fan-out that is refused by the cooldown (the status
\* changed against an earlier observation of this endpoint, the bot and the
\* chat id are there, the key's entry is less than an hour old) is refused by
\* an entry that a delivery for this same endpoint has set, never by the entry
\* of an endpoint deleted before.
C35_CooldownOfOwnEndpoint ==
    [][\A p \in Ticks :
         LET key == KeyOf(loc[p].chatId, loc[p].site)
         IN  ( /\ SendNotification(p)
               /\ bot /\ loc[p].chatId # NoChat
               /\ ~loc[p].first
               /\ statusChanged(loc[p].previousLog, loc[p].currentLog)
               /\ rateLimited(clock, lastNotificationTimestamps[key]) )
             => cooldownFor[key] = loc[p].site.url
      ]_vars

\* C36: for every endpoint that has observations in the store, the
\* observation getLatestLogs reports for it is the one appended last.
C36_LatestIsLastAppended ==
    \A id \in SiteIds :
        LET h == LogsOf(file, id)
        IN  h # <<>> => getLatestLogs(file)[id] = h[Len(h)]
====
